---------------------------- MODULE Spec2Model ----------------------------
(***************************************************************************)
(* A model of the job scraper of src/job_scraper.py: the platform          *)
(* adapters, the candidate classifier (filter_with_reason), the            *)
(* de-duplication by job key and the cross-run aging state kept by         *)
(* run_all.                                                                *)
(*                                                                         *)
(* Python strings are TLA+ strings; they are taken apart with Len and      *)
(* SubSeq and put together with \o, so that lower(), strip(), split() and  *)
(* the regular expressions of the source are computed character by         *)
(* character.  Times are whole seconds since an arbitrary epoch.           *)
(***************************************************************************)
EXTENDS Integers, Sequences, FiniteSets, TLC

VARIABLES
    pc,          \* where run_all stands: "idle" (not running) or "scrape" (in the source loop)
    clock,       \* the UTC wall clock, in seconds
    runs,        \* number of run_all invocations started so far
    sources,     \* rows of loadsheet.csv read by the current run
    idx,         \* index of the next row of sources the loop will handle
    raw_rows,    \* run_all's raw_rows
    log,         \* per handled row of this run: the page it met and what the adapter did
    uniq,        \* run_all's uniq (after the de-dupe loop)
    postings,    \* content of job_postings.csv
    rejections,  \* content of rejections.csv
    state,       \* content of state.csv (<<>> when absent or header-only)
    aged,        \* content of aged_jobs.csv
    agedWritten, \* TRUE when the last finished run wrote aged_jobs.csv
    now,         \* the timestamp utc_iso() gave the last run that reached the aging step
    prev,        \* state.csv as it was when the current run started
    probe        \* a (title, description) pair and the classifier's answer for it;
                 \* given is FALSE when the title passed is None.  Under SpecWix:
                 \* a rendered page and what scrape_wix_generic made of it

vars == <<pc, clock, runs, sources, idx, raw_rows, log, uniq, postings,
          rejections, state, aged, agedWritten, now, prev, probe>>

pipelineVars == <<pc, clock, runs, sources, idx, raw_rows, log, uniq, postings,
                  rejections, state, aged, agedWritten, now, prev>>

----------------------------------------------------------------------------
(* Python's str operations, over ASCII.                                    *)

Ch(s, i) == SubSeq(s, i, i)

LowerLetters == "abcdefghijklmnopqrstuvwxyz"
UpperLetters == "ABCDEFGHIJKLMNOPQRSTUVWXYZ"
DigitChars == "0123456789"

CharSet(s) == {Ch(s, i) : i \in 1..Len(s)}

LowerSet == CharSet(LowerLetters)
UpperSet == CharSet(UpperLetters)
DigitSet == CharSet(DigitChars)
Whitespace == {" ", "\t", "\n", "\r", "\f"}
WordChars == LowerSet \cup UpperSet \cup DigitSet \cup {"_"}

LowerMap ==
    [c \in UpperSet |->
        Ch(LowerLetters, CHOOSE i \in 1..Len(UpperLetters) : Ch(UpperLetters, i) = c)]

LowerChar(c) == IF c \in UpperSet THEN LowerMap[c] ELSE c

\* s from position i on, lower-cased: the text up to the next upper-case
\* letter is copied as it is
RECURSIVE LowerFrom(_, _)
LowerFrom(s, i) ==
    LET ups == {j \in i..Len(s) : Ch(s, j) \in UpperSet}
    IN  IF ups = {} THEN SubSeq(s, i, Len(s))
        ELSE LET u == CHOOSE j \in ups : \A k \in ups : j <= k
             IN  SubSeq(s, i, u - 1) \o LowerChar(Ch(s, u)) \o LowerFrom(s, u + 1)

lower(s) == LowerFrom(s, 1)

RECURSIVE lstrip(_)
lstrip(s) ==
    IF s # "" /\ Ch(s, 1) \in Whitespace THEN lstrip(SubSeq(s, 2, Len(s))) ELSE s

RECURSIVE rstrip(_)
rstrip(s) ==
    IF s # "" /\ Ch(s, Len(s)) \in Whitespace THEN rstrip(SubSeq(s, 1, Len(s) - 1)) ELSE s

strip(s) == rstrip(lstrip(s))

\* the first position at or after i that holds (TRUE) or does not hold (FALSE)
\* a whitespace character; Len(s) + 1 when there is none
RECURSIVE Scan(_, _, _)
Scan(s, i, ws) ==
    IF i > Len(s) \/ ((Ch(s, i) \in Whitespace) = ws) THEN i ELSE Scan(s, i + 1, ws)

\* s.split(): the maximal runs of non-whitespace characters, in order
RECURSIVE SplitFrom(_, _)
SplitFrom(s, i) ==
    LET b == Scan(s, i, FALSE)
        e == Scan(s, b, TRUE)
    IN  IF b > Len(s) THEN <<>> ELSE <<SubSeq(s, b, e - 1)>> \o SplitFrom(s, e)

split(s) == SplitFrom(s, 1)

RECURSIVE join(_, _)
join(sep, ws) ==
    IF ws = <<>> THEN ""
    ELSE IF Len(ws) = 1 THEN ws[1]
    ELSE ws[1] \o sep \o join(sep, Tail(ws))

\* needle in hay
contains(hay, needle) ==
    \/ needle = ""
    \/ \E i \in 1..(Len(hay) - Len(needle) + 1) :
          Ch(hay, i) = Ch(needle, 1) /\ SubSeq(hay, i, i + Len(needle) - 1) = needle

startswith(s, p) == Len(p) <= Len(s) /\ SubSeq(s, 1, Len(p)) = p

endswith(s, p) == Len(p) <= Len(s) /\ SubSeq(s, Len(s) - Len(p) + 1, Len(s)) = p

\* s[:n]
prefix(s, n) == SubSeq(s, 1, IF n < Len(s) THEN n ELSE Len(s))

\* s.split("\n")[0]
firstline(s) ==
    LET cut == {i \in 1..Len(s) : Ch(s, i) = "\n"}
    IN  IF cut = {} THEN s
        ELSE SubSeq(s, 1, (CHOOSE i \in cut : \A j \in cut : i <= j) - 1)

normalize_space(s) == join(" ", split(s))

make_job_key(j) ==
    join("|", <<lower(j.company), lower(j.source), lower(j.title),
                lower(j.location), lower(j.url)>>)

----------------------------------------------------------------------------
(* Code-point order of strings, as sorted() uses it.                       *)

\* code points 32..95 and 97..126 (a backquote cannot be written in a TLA+ string)
PrintableLow == " !\"#$%&'()*+,-./0123456789:;<=>?@ABCDEFGHIJKLMNOPQRSTUVWXYZ[\\]^_"
PrintableHigh == "abcdefghijklmnopqrstuvwxyz{|}~"

CodePoint(c) ==
    IF c = "\t" THEN 9
    ELSE IF c = "\n" THEN 10
    ELSE IF c = "\f" THEN 12
    ELSE IF c = "\r" THEN 13
    ELSE IF c \in CharSet(PrintableLow)
    THEN 31 + (CHOOSE i \in 1..Len(PrintableLow) : Ch(PrintableLow, i) = c)
    ELSE 96 + (CHOOSE i \in 1..Len(PrintableHigh) : Ch(PrintableHigh, i) = c)

RECURSIVE StrLess(_, _)
StrLess(a, b) ==
    IF b = "" THEN FALSE
    ELSE IF a = "" THEN TRUE
    ELSE IF Ch(a, 1) = Ch(b, 1) THEN StrLess(SubSeq(a, 2, Len(a)), SubSeq(b, 2, Len(b)))
    ELSE CodePoint(Ch(a, 1)) < CodePoint(Ch(b, 1))

\* sorted(S) for a set S of strings
RECURSIVE sorted(_)
sorted(S) ==
    IF S = {} THEN <<>>
    ELSE LET m == CHOOSE x \in S : \A y \in S \ {x} : StrLess(x, y)
         IN  <<m>> \o sorted(S \ {m})

----------------------------------------------------------------------------
(* The regular expressions of the classifier.  A search succeeds when some *)
(* start position has a match, so each pattern is run as an automaton over *)
(* sets of positions: from the positions P reached so far, a pattern item  *)
(* gives the positions reachable after it.                                 *)

\* one character of the class C
Step(s, P, C) == {p + 1 : p \in {q \in P : q <= Len(s) /\ Ch(s, q) \in C}}

\* an optional character of the class C
Opt(s, P, C) == P \cup Step(s, P, C)

\* exactly n characters of the class C
RECURSIVE Rep(_, _, _, _)
Rep(s, P, C, n) == IF n = 0 THEN P ELSE Rep(s, Step(s, P, C), C, n - 1)

\* \S+ : one or more non-whitespace characters
PlusNonSpace(s, P) ==
    {q \in 2..(Len(s) + 1) :
        \E p \in P : p < q /\ \A k \in p..(q - 1) : Ch(s, k) \notin Whitespace}

\* the literal string lit
Lit(s, P, lit) ==
    {p + Len(lit) : p \in {q \in P : q + Len(lit) - 1 <= Len(s)
                                      /\ SubSeq(s, q, q + Len(lit) - 1) = lit}}

IsWordAt(s, k) == k >= 1 /\ k <= Len(s) /\ Ch(s, k) \in WordChars

\* \b holds at position p, between the characters p - 1 and p
Boundary(s, p) == IsWordAt(s, p - 1) # IsWordAt(s, p)

Bounded(s, P) == {p \in P : Boundary(s, p)}

Starts(s) == Bounded(s, 1..(Len(s) + 1))

PhoneSeparators == {"-", "."} \cup Whitespace

\* PHONE_RE.search(s)
PHONE_RE(s) ==
    \E i \in Starts(s) :
        LET a1 == Opt(s, {i}, {"+"})
            a2 == Step(s, a1, {"1"})
            a3 == Opt(s, a2, PhoneSeparators)
            b0 == {i} \cup a3
            b1 == Opt(s, b0, {"("})
            b2 == Rep(s, b1, DigitSet, 3)
            b3 == Opt(s, b2, {")"})
            b4 == Opt(s, b3, PhoneSeparators)
            b5 == Rep(s, b4, DigitSet, 3)
            b6 == Opt(s, b5, PhoneSeparators)
            b7 == Rep(s, b6, DigitSet, 4)
        IN  Bounded(s, b7) # {}

\* EMAIL_RE.search(s)
EMAIL_RE(s) ==
    \E i \in Starts(s) :
        LET p1 == PlusNonSpace(s, {i})
            p2 == Step(s, p1, {"@"})
            p3 == PlusNonSpace(s, p2)
            p4 == Step(s, p3, {"."})
            p5 == PlusNonSpace(s, p4)
        IN  Bounded(s, p5) # {}

\* URL_RE.search(s)
URL_RE(s) == contains(s, "http://") \/ contains(s, "https://") \/ contains(s, "www.")

\* UPPER_RE.match(s): no character in a-z
UPPER_RE(s) == \A i \in 1..Len(s) : Ch(s, i) \notin LowerSet

\* re.search(r'\binc\.?\b|\bllc\b|\bcorp\.?\b', s)
COMPANY_RE(s) ==
    \/ Bounded(s, Opt(s, Lit(s, Starts(s), "inc"), {"."})) # {}
    \/ Bounded(s, Lit(s, Starts(s), "llc")) # {}
    \/ Bounded(s, Opt(s, Lit(s, Starts(s), "corp"), {"."})) # {}

----------------------------------------------------------------------------
(* The blocklist.                                                          *)

\* The last phrase of the source list is made of two non-ASCII characters; no
\* string over the ASCII characters of this model contains it, and it sorts
\* after every other phrase, so it is left out.
DEFAULT_BLOCKLIST ==
    << "open positions", "we are hiring", "hiring", "join our mailing list",
       "join our newsletter", "click to apply", "apply now", "benefits",
       "about us", "mission statement", "equal opportunity", "contact us",
       "locations", "hours", "privacy policy", "terms of service",
       "subscribe", "sign up", "follow us", "news", "events",
       "sales event", "promotion", "coupon", "contest", "sweepstakes",
       "blog", "press",
       "accessibility statement", "terms of use", "all rights reserved",
       "powered by", "copyright",
       "employment application", "download application", "apply online",
       "apply here", "print application" >>

\* lines of config/blocklist.txt (the file is optional; here it is absent)
UserBlocklistLines == <<>>

load_blocklist ==
    LET user == {lower(strip(UserBlocklistLines[i])) : i \in 1..Len(UserBlocklistLines)}
        kept == {p \in user : p # "" /\ ~startswith(p, "#")}
    IN  sorted({DEFAULT_BLOCKLIST[i] : i \in 1..Len(DEFAULT_BLOCKLIST)} \cup kept)

BLOCKLIST == load_blocklist

----------------------------------------------------------------------------
(* The classifier.                                                         *)

CapWord(w) ==
    /\ Len(w) >= 2
    /\ Ch(w, 1) \in UpperSet
    /\ \A i \in 2..Len(w) : Ch(w, i) \in LowerSet

\* ok(w) of is_titlecase_like
TitleWordOk(w) ==
    \/ Len(w) >= 2 /\ Len(w) <= 5 /\ \A i \in 1..Len(w) : Ch(w, i) \in UpperSet
    \/ CapWord(w)
    \/ \E k \in 2..(Len(w) - 1) :
          /\ Ch(w, k) = "-"
          /\ CapWord(SubSeq(w, 1, k - 1))
          /\ CapWord(SubSeq(w, k + 1, Len(w)))

Max(a, b) == IF a >= b THEN a ELSE b

\* is_titlecase_like with a slip: the hits are compared with the exact half of
\* the word count
is_titlecase_exact_half(title) ==
    LET words == split(title)
        hits == Cardinality({i \in 1..Len(words) : TitleWordOk(words[i])})
    IN  IF words = <<>> THEN FALSE
        ELSE hits >= 1 /\ 2 * hits >= Len(words)

is_titlecase_like(title) ==
    LET words == split(title)
        hits == Cardinality({i \in 1..Len(words) : TitleWordOk(words[i])})
    IN  IF words = <<>> THEN FALSE
        ELSE hits >= Max(1, Len(words) \div 2)

\* The conditions of filter_with_reason, one per rule, on the stripped title
\* and description.
TooShort(title) == Len(lower(title)) < 5
OneWordHeader(title) == Len(split(title)) < 2
ContactInfo(title) == PHONE_RE(title) \/ EMAIL_RE(title) \/ URL_RE(title)
CompanyName(title) == COMPANY_RE(lower(title))
AllCapsHeader(title) == UPPER_RE(title) /\ Len(split(title)) <= 3
SentenceLike(title) ==
    (endswith(title, ".") \/ endswith(title, "!") \/ endswith(title, "?"))
    /\ Len(split(title)) >= 6
\* the loop over BLOCKLIST: the index of the first phrase at or after i found
\* in tl or dl, 0 when there is none
RECURSIVE FirstBlock(_, _, _)
FirstBlock(tl, dl, i) ==
    IF i > Len(BLOCKLIST) THEN 0
    ELSE IF contains(tl, BLOCKLIST[i]) \/ contains(dl, BLOCKLIST[i]) THEN i
    ELSE FirstBlock(tl, dl, i + 1)
Blocked(title, desc) == FirstBlock(lower(title), lower(desc), 1)
RequirementOnly(title) == contains(lower(title), "required") /\ Len(split(title)) <= 3
NotTitleLike(title) == ~is_titlecase_like(title) /\ Len(split(title)) > 6

Min(S) == CHOOSE x \in S : \A y \in S : x <= y

\* Reject with a slip: the rejection carries no reason code
RejectWithoutCode(reason) == [keep |-> FALSE, reason |-> ""]

Reject(reason) == [keep |-> FALSE, reason |-> reason]

\* FilterStripped with a slip: the blocklist is looked up before the
\* structural rules
FilterBlocklistFirst(title, desc) ==
    IF Blocked(title, desc) # 0
    THEN Reject("block:" \o BLOCKLIST[Blocked(title, desc)])
    ELSE IF TooShort(title) THEN Reject("too_short")
    ELSE IF OneWordHeader(title) THEN Reject("one_word_header")
    ELSE IF ContactInfo(title) THEN Reject("contact_info")
    ELSE IF CompanyName(title) THEN Reject("company_name")
    ELSE IF AllCapsHeader(title) THEN Reject("all_caps_header")
    ELSE IF SentenceLike(title) THEN Reject("sentence_like")
    ELSE IF RequirementOnly(title) THEN Reject("requirement_only")
    ELSE IF NotTitleLike(title) THEN Reject("not_title_like")
    ELSE [keep |-> TRUE, reason |-> ""]

FilterStripped(title, desc) ==
    IF TooShort(title) THEN Reject("too_short")
    ELSE IF OneWordHeader(title) THEN Reject("one_word_header")
    ELSE IF ContactInfo(title) THEN Reject("contact_info")
    ELSE IF CompanyName(title) THEN Reject("company_name")
    ELSE IF AllCapsHeader(title) THEN Reject("all_caps_header")
    ELSE IF SentenceLike(title) THEN Reject("sentence_like")
    ELSE IF Blocked(title, desc) # 0
         THEN Reject("block:" \o BLOCKLIST[Blocked(title, desc)])
    ELSE IF RequirementOnly(title) THEN Reject("requirement_only")
    ELSE IF NotTitleLike(title) THEN Reject("not_title_like")
    ELSE [keep |-> TRUE, reason |-> ""]

filter_with_reason(title, description) == FilterStripped(strip(title), strip(description))

----------------------------------------------------------------------------
(* The rendered page.  A page is what the browser shows for one loadsheet  *)
(* row in one run:                                                         *)
(*   nav    FALSE when page.goto (or the wait after it) raises             *)
(*   items  the cards or anchors the adapter's selector finds, each        *)
(*          [raises, title, location, href]: raises is TRUE when reading   *)
(*          the element raises; a sub-element that is missing, or has no   *)
(*          text or attribute, reads as ""                                 *)
(*   scopes the main/section/div containers of a Wix page, each            *)
(*          [raises, text, els]: text is the container's inner text, els   *)
(*          the elements the ten selectors find in it, each [raises, text] *)
(*   net    the string values found under title-like keys in the JSON      *)
(*          responses of a Wix page                                        *)
(* An adapter gives [raised, rows]: raised is TRUE when an exception       *)
(* leaves the adapter, and then rows is lost to the caller.                *)

Row(company, source, title, location, url, description) ==
    [company |-> company, source |-> source, title |-> title,
     location |-> location, url |-> url, description |-> description]

Returned(rows) == [raised |-> FALSE, rows |-> rows]
Raised == [raised |-> TRUE, rows |-> <<>>]

\* the rows a loop appends, element by element: Body(e) is <<>> or one row
RECURSIVE Flatten(_)
Flatten(ss) == IF ss = <<>> THEN <<>> ELSE Head(ss) \o Flatten(Tail(ss))

Collect(elems, Body(_)) == Flatten([i \in 1..Len(elems) |-> Body(elems[i])])

VERB_STOPWORDS ==
    {"apply", "click", "join", "subscribe", "sign", "learn", "contact",
     "visit", "shop", "buy", "call", "email", "download", "view", "read", "follow"}

\* s.strip(chars)
RECURSIVE StripChars(_, _)
StripChars(s, C) ==
    IF s # "" /\ Ch(s, 1) \in C THEN StripChars(SubSeq(s, 2, Len(s)), C)
    ELSE IF s # "" /\ Ch(s, Len(s)) \in C THEN StripChars(SubSeq(s, 1, Len(s) - 1), C)
    ELSE s

TitleLineMax == 64

_looks_like_job_title(line0) ==
    LET line == strip(line0)
        words == split(line)
    IN  /\ line0 # ""
        /\ Len(line) <= TitleLineMax
        /\ Len(words) >= 2 /\ Len(words) <= 7
        /\ ~(UPPER_RE(line) /\ Len(words) <= 3)
        /\ StripChars(lower(words[1]), {":", ",", ".", "-", "/"}) \notin VERB_STOPWORDS
        \* with no lowercase letter the pattern \b[A-Z][a-z]+ cannot match either
        /\ \E i \in 1..Len(line) : Ch(line, i) \in LowerSet

\* the first position of lit in s (0 when s does not contain it)
find(s, lit) ==
    LET hits == {i \in 1..(Len(s) - Len(lit) + 1) : SubSeq(s, i, i + Len(lit) - 1) = lit}
    IN  IF hits = {} THEN 0 ELSE Min(hits)

\* where the path of an absolute URL starts (Len(u) + 1 when it has none)
PathStart(u) ==
    LET from == find(u, "://") + 3
        slashes == {i \in from..Len(u) : Ch(u, i) = "/"}
    IN  IF slashes = {} THEN Len(u) + 1 ELSE Min(slashes)

LastSlash(u) == CHOOSE i \in 1..Len(u) : Ch(u, i) = "/" /\ \A j \in (i + 1)..Len(u) : Ch(u, j) # "/"

\* urljoin(base, href) for an absolute base and an href that is absolute,
\* starts with "/" or names a file beside the base (no "..", query or fragment)
urljoin(base, href) ==
    IF contains(href, "://") THEN href
    ELSE IF startswith(href, "/") THEN SubSeq(base, 1, PathStart(base) - 1) \o href
    ELSE IF PathStart(base) > Len(base) THEN base \o "/" \o href
    ELSE SubSeq(base, 1, LastSlash(base)) \o href

IndeedCard(company, c) ==
    LET link == IF startswith(c.href, "/") THEN "https://www.indeed.com" \o c.href ELSE c.href
        title == normalize_space(c.title)
        location == normalize_space(c.location)
    IN  IF c.raises \/ title = "" THEN <<>>
        ELSE <<Row(company, "Indeed", title, location, link, "")>>

scrape_indeed(page, company) ==
    IF ~page.nav THEN Raised
    ELSE LET Body(c) == IndeedCard(company, c)
         IN  Returned(Collect(page.items, Body))

StaticCard(url, company, sel_title, sel_loc, sel_link, card) ==
    LET title == IF sel_title # "" THEN strip(card.title) ELSE ""
        location == IF sel_loc # "" THEN strip(card.location) ELSE ""
        href == IF sel_link # "" THEN card.href ELSE ""
        link == IF href # "" THEN urljoin(url, href) ELSE url
    IN  IF card.raises \/ title = "" THEN <<>>
        ELSE <<Row(company, "Website (Static)", normalize_space(title),
                   normalize_space(location), link, "")>>

scrape_custom_static(page, url, company, sel_card, sel_title, sel_loc, sel_link) ==
    IF ~page.nav THEN Raised
    ELSE LET cards == IF sel_card # "" THEN page.items ELSE <<>>
             Body(c) == StaticCard(url, company, sel_title, sel_loc, sel_link, c)
         IN  Returned(Collect(cards, Body))

\* the loop shared by scrape_lever, scrape_greenhouse and scrape_bamboohr
Anchor(url, company, source, a) ==
    LET title == normalize_space(a.title)
        link == IF a.href # "" THEN a.href ELSE url
    IN  IF a.raises \/ title = "" THEN <<>>
        ELSE <<Row(company, source, title, "", link, "")>>

ScrapeAnchors(page, url, company, source) ==
    IF ~page.nav THEN Raised
    ELSE LET Body(a) == Anchor(url, company, source, a)
         IN  Returned(Collect(page.items, Body))

scrape_lever(page, url, company) == ScrapeAnchors(page, url, company, "Lever")
scrape_greenhouse(page, url, company) == ScrapeAnchors(page, url, company, "Greenhouse")
scrape_bamboohr(page, url, company) == ScrapeAnchors(page, url, company, "BambooHR")

SIGNAL_WORDS ==
    {"career", "careers", "employment", "jobs", "positions", "apply", "opportunities"}

ScopeLimit == 10
DescriptionMax == 400

HasSignal(scope) == \E sig \in SIGNAL_WORDS : contains(lower(scope.text), sig)

WixElement(url, company, el) ==
    LET txt == IF el.raises THEN "" ELSE strip(el.text)
        line == strip(firstline(txt))
    IN  IF txt = "" \/ ~_looks_like_job_title(line) THEN <<>>
        ELSE <<Row(company, "Website (Wix)", line, "", url, prefix(txt, DescriptionMax))>>

\* WixScope with a slip: the container is scanned whatever its text says
WixScopeAnyText(url, company, scope) ==
    LET Body(el) == WixElement(url, company, el)
    IN  Collect(scope.els, Body)

WixScope(url, company, scope) ==
    LET Body(el) == WixElement(url, company, el)
    IN  IF ~HasSignal(scope) THEN <<>> ELSE Collect(scope.els, Body)

\* the leaf test of _mine_json_for_titles, on one string value
MinedTitle(v) ==
    LET val == strip(v)
    IN  IF val # "" /\ _looks_like_job_title(val) THEN <<val>> ELSE <<>>

WixNetRow(url, company, t) == <<Row(company, "Website (Wix, net)", t, "", url, "")>>

scrape_wix_generic(page, url, company) ==
    LET scopes == SubSeq(page.scopes, 1, IF Len(page.scopes) < ScopeLimit
                                         THEN Len(page.scopes) ELSE ScopeLimit)
        Scan1(scope) == WixScope(url, company, scope)
        Net(t) == WixNetRow(url, company, t)
    IN  IF ~page.nav THEN Raised
        \* scope.inner_text() is read outside any try block
        ELSE IF \E i \in 1..Len(scopes) : scopes[i].raises THEN Raised
        ELSE Returned(Collect(scopes, Scan1)
                      \o Collect(Collect(page.net, MinedTitle), Net))

----------------------------------------------------------------------------
(* The world of the model: the loadsheets a run may read and the pages the *)
(* browser may show for each row.                                          *)

SourceRow(company, source_type, url, card, title, location, link) ==
    [company |-> company, source_type |-> source_type, url |-> url,
     selector_card |-> card, selector_title |-> title,
     selector_location |-> location, selector_link |-> link]

RowWix == SourceRow("Acme Lumber", "wix_generic", "https://acme.example/careers", "", "", "", "")
RowIndeed == SourceRow(" Acme Lumber", "Indeed", "", "", "", "", "")
RowStatic == SourceRow("Birch Supply", "custom_static", "https://birch.example/jobs/",
                       ".job", "h3", "", "a")
RowLever == SourceRow("Birch Supply", "lever", "https://jobs.lever.co/birch", "", "", "", "")
RowGreenhouse ==
    SourceRow("Birch Supply", "greenhouse", "https://boards.greenhouse.io/birch", "", "", "", "")
RowBamboo == SourceRow("Birch Supply", "bamboohr", "https://birch.bamboohr.com/jobs", "", "", "", "")
RowUnknown == SourceRow("Birch Supply", "icims", "https://birch.icims.com", "", "", "", "")

Loadsheets ==
    { <<>>,
      <<RowWix, RowIndeed>>,
      <<RowStatic, RowLever, RowGreenhouse, RowBamboo, RowUnknown>> }

Item(title, location, href) ==
    [raises |-> FALSE, title |-> title, location |-> location, href |-> href]
BrokenItem == [raises |-> TRUE, title |-> "", location |-> "", href |-> ""]
El(text) == [raises |-> FALSE, text |-> text]
BrokenEl == [raises |-> TRUE, text |-> ""]
Scope(text, els) == [raises |-> FALSE, text |-> text, els |-> els]
BrokenScope == [raises |-> TRUE, text |-> "", els |-> <<>>]

Page(nav, items, scopes, net) ==
    [nav |-> nav, items |-> items, scopes |-> scopes, net |-> net]

Unreachable == Page(FALSE, <<>>, <<>>, <<>>)

PageNames ==
    {"wix_down", "wix_jobs", "wix_stale_scope", "wix_plain", "indeed_down", "indeed_jobs",
     "static_jobs", "lever_down", "lever_jobs", "greenhouse_jobs", "bamboohr_jobs", "none"}

PageOf(name) ==
    CASE name = "wix_jobs" ->
            Page(TRUE, <<>>,
                 << Scope("Careers at Acme\nYard Associate\nInside Sales-Rep",
                          << El("Yard Associate\nApply now for this job"),
                             El("Yard Associate"),
                             El(" Yard  Associate "),
                             BrokenEl,
                             El("CAREERS"),
                             El("Apply Now: Drivers"),
                             El("Inside Sales-Rep\nFull time") >>),
                    Scope("About Acme", << El("Store Manager") >>) >>,
                 << " Boom Truck Driver (CDL) ", "Privacy Policy", "Acme" >>)
      [] name = "wix_stale_scope" ->
            Page(TRUE, <<>>,
                 << Scope("Jobs", << El("Yard Associate") >>), BrokenScope >>,
                 << "Boom Truck Driver (CDL)" >>)
      [] name = "wix_plain" ->
            Page(TRUE, <<>>,
                 << Scope("Welcome to Acme", << El("Yard Associate") >>) >>,
                 <<>>)
      [] name = "indeed_jobs" ->
            Page(TRUE,
                 << Item("CDL Driver", "Antigo, WI", "/rc/clk?jk=1"),
                    BrokenItem,
                    Item("cdl  driver", "antigo, wi", "/rc/clk?jk=1"),
                    Item("", "Antigo, WI", "/rc/clk?jk=3"),
                    Item(" Counter  Sales\n", "N/A", "https://www.indeed.com/viewjob?jk=2") >>,
                 <<>>, <<>>)
      [] name = "static_jobs" ->
            Page(TRUE,
                 << Item(" Yard   Foreman ", "Rhinelander", "/jobs/1"),
                    BrokenItem,
                    Item("", "", "/jobs/2"),
                    Item("Contact Us", "", "apply.html"),
                    Item("Kitchen Designer", "", "") >>,
                 <<>>, <<>>)
      [] name = "lever_jobs" ->
            Page(TRUE,
                 << Item("Delivery  Driver", "", "https://jobs.lever.co/birch/1"),
                    BrokenItem,
                    Item("Apply Now", "", "") >>,
                 <<>>, <<>>)
      [] name = "greenhouse_jobs" ->
            Page(TRUE, << Item("Millwork Estimator", "", "") >>, <<>>, <<>>)
      [] name = "bamboohr_jobs" ->
            Page(TRUE,
                 << Item("HR", "", "https://birch.bamboohr.com/jobs/6"),
                    Item("Purchasing Manager", "", "https://birch.bamboohr.com/jobs/7") >>,
                 <<>>, <<>>)
      [] OTHER -> Unreachable

\* the pages a row may meet in a run
PagesFor(row) ==
    LET stype == lower(strip(row.source_type))
    IN  CASE stype = "indeed" -> {"indeed_down", "indeed_jobs"}
          [] stype = "wix_generic" -> {"wix_down", "wix_jobs", "wix_stale_scope", "wix_plain"}
          [] stype = "custom_static" -> {"static_jobs"}
          [] stype = "lever" -> {"lever_down", "lever_jobs"}
          [] stype = "greenhouse" -> {"greenhouse_jobs"}
          [] stype = "bamboohr" -> {"bamboohr_jobs"}
          [] OTHER -> {"none"}

----------------------------------------------------------------------------
(* run_all.                                                                *)

\* the body of the try block of the source loop: the adapter the row names
Dispatch(row, page) ==
    LET company == strip(row.company)
        stype == lower(strip(row.source_type))
        url == strip(row.url)
    IN  CASE stype = "indeed" -> scrape_indeed(page, company)
          [] stype = "wix_generic" -> scrape_wix_generic(page, url, company)
          [] stype = "custom_static" ->
                scrape_custom_static(page, url, company, strip(row.selector_card),
                                     strip(row.selector_title), strip(row.selector_location),
                                     strip(row.selector_link))
          [] stype = "lever" -> scrape_lever(page, url, company)
          [] stype = "greenhouse" -> scrape_greenhouse(page, url, company)
          [] stype = "bamboohr" -> scrape_bamboohr(page, url, company)
          [] OTHER -> Returned(<<>>)

\* One pass of the source loop: what raw_rows and the loop are after the
\* adapter returned or raised ("raw_rows += ..." under try/except Exception).
AfterSource(rows, i, result) ==
    [raw_rows |-> IF result.raised THEN rows ELSE rows \o result.rows,
     idx |-> i + 1,
     pc |-> "scrape"]

\* the de-dupe loop: the first row of every job key, in order
RECURSIVE DedupeFrom(_, _, _)
DedupeFrom(rows, i, seen) ==
    IF i > Len(rows) THEN <<>>
    ELSE LET k == make_job_key(rows[i])
         IN  IF k \in seen THEN DedupeFrom(rows, i + 1, seen)
             ELSE <<rows[i]>> \o DedupeFrom(rows, i + 1, seen \cup {k})

\* Dedupe with a slip: the last row of every job key is the one kept
DedupeKeepsLast(rows) ==
    LET last == {i \in 1..Len(rows) :
                    \A j \in (i + 1)..Len(rows) :
                        make_job_key(rows[j]) # make_job_key(rows[i])}
    IN  [k \in 1..Cardinality(last) |->
            rows[CHOOSE i \in last : Cardinality({j \in last : j <= i}) = k]]

Dedupe(rows) == DedupeFrom(rows, 1, {})

SnippetMax == 250

\* a row of job_postings.csv: the row without its description
Posting(j) ==
    [company |-> j.company, source |-> j.source, title |-> j.title,
     location |-> j.location, url |-> j.url]

Rejection(j, reason) ==
    [title |-> j.title, reason |-> reason, snippet |-> prefix(j.description, SnippetMax)]

\* every row that a page of the world can yield for a row of a loadsheet
WorldRows ==
    UNION { UNION { UNION { LET rows == Dispatch(sheet[k], PageOf(name)).rows
                            IN  {rows[i] : i \in 1..Len(rows)}
                            : name \in PagesFor(sheet[k]) }
                    : k \in 1..Len(sheet) }
            : sheet \in Loadsheets }

\* keep_row's call of filter_with_reason on a row; the function is pure, and
\* its value on each row of the world is computed once
Classified == [j \in WorldRows |-> filter_with_reason(j.title, j.description)]

\* the filter loop over rows: the rows kept and the rejections recorded
FilterRows(rows) ==
    LET res == [i \in 1..Len(rows) |-> Classified[rows[i]]]
        Kept(i) == IF res[i].keep THEN <<Posting(rows[i])>> ELSE <<>>
        Dropped(i) == IF res[i].keep THEN <<>> ELSE <<Rejection(rows[i], res[i].reason)>>
    IN  [filtered |-> Flatten([i \in 1..Len(rows) |-> Kept(i)]),
         rejections |-> Flatten([i \in 1..Len(rows) |-> Dropped(i)])]

\* the cells that pd.read_csv takes for missing values (its default na_values)
NA_VALUES ==
    { "", "#N/A", "#N/A N/A", "#NA", "-1.#IND", "-1.#QNAN", "-NaN", "-nan", "1.#IND",
      "1.#QNAN", "<NA>", "N/A", "NA", "NULL", "NaN", "None", "n/a", "nan", "null" }

\* a text cell of state.csv as it is written back after pd.read_csv has read
\* it: a missing value is written as the empty cell
ReadCell(v) == IF v \in NA_VALUES THEN "" ELSE v

\* pd.read_csv(STATE_CSV): the rows of the file with their text cells read
read_csv(st) ==
    [i \in 1..Len(st) |->
        [st[i] EXCEPT !.job_key = ReadCell(@), !.company = ReadCell(@),
                      !.source = ReadCell(@), !.title = ReadCell(@),
                      !.location = ReadCell(@), !.url = ReadCell(@)]]

Entry(j, first, last) ==
    [job_key |-> make_job_key(j), company |-> j.company, source |-> j.source,
     title |-> j.title, location |-> j.location, url |-> j.url,
     first_seen_utc |-> first, last_seen_utc |-> last]

\* Merge with a slip: a job seen again also gets a new first_seen_utc
MergeRestampsFirstSeen(st, filtered, t) ==
    IF st = <<>>
    THEN [i \in 1..Len(filtered) |-> Entry(filtered[i], t, t)]
    ELSE LET keys == {st[i].job_key : i \in 1..Len(st)}
             rkeys == {make_job_key(filtered[i]) : i \in 1..Len(filtered)}
             seen == [i \in 1..Len(st) |->
                        IF st[i].job_key \in rkeys
                        THEN [st[i] EXCEPT !.first_seen_utc = t, !.last_seen_utc = t]
                        ELSE st[i]]
             New(i) == IF make_job_key(filtered[i]) \in keys THEN <<>>
                       ELSE <<Entry(filtered[i], t, t)>>
         IN  seen \o Flatten([i \in 1..Len(filtered) |-> New(i)])

\* Merge with a slip: the state is rebuilt from the jobs of this run alone
MergeKeepsOnlyRun(st, filtered, t) ==
    LET rkeys == {make_job_key(filtered[i]) : i \in 1..Len(filtered)}
        Old(i) == IF st[i].job_key \in rkeys
                  THEN <<[st[i] EXCEPT !.last_seen_utc = t]>> ELSE <<>>
        keys == {st[i].job_key : i \in 1..Len(st)}
        New(i) == IF make_job_key(filtered[i]) \in keys THEN <<>>
                  ELSE <<Entry(filtered[i], t, t)>>
    IN  Flatten([i \in 1..Len(st) |-> Old(i)]) \o Flatten([i \in 1..Len(filtered) |-> New(i)])

\* the aging-state update for a non-empty run_df
Merge(st, filtered, t) ==
    IF st = <<>>
    THEN [i \in 1..Len(filtered) |-> Entry(filtered[i], t, t)]
    ELSE LET keys == {st[i].job_key : i \in 1..Len(st)}
             rkeys == {make_job_key(filtered[i]) : i \in 1..Len(filtered)}
             seen == [i \in 1..Len(st) |->
                        IF st[i].job_key \in rkeys
                        THEN [st[i] EXCEPT !.last_seen_utc = t] ELSE st[i]]
             New(i) == IF make_job_key(filtered[i]) \in keys THEN <<>>
                       ELSE <<Entry(filtered[i], t, t)>>
         IN  seen \o Flatten([i \in 1..Len(filtered) |-> New(i)])

SecondsPerDay == 24 * 60 * 60
AgedDays == 28

\* age_days(first_iso), computed when the clock shows t
age_days(first, t) == (t - first) \div SecondsPerDay

\* sort_values("age_days", ascending=False) on a short table: rows of equal
\* age keep their order
RECURSIVE InsertByAge(_, _)
InsertByAge(sorted_rows, e) ==
    IF sorted_rows = <<>> THEN <<e>>
    ELSE IF Head(sorted_rows).age_days >= e.age_days
         THEN <<Head(sorted_rows)>> \o InsertByAge(Tail(sorted_rows), e)
         ELSE <<e>> \o sorted_rows

RECURSIVE SortByAge(_)
SortByAge(rows) ==
    IF rows = <<>> THEN <<>>
    ELSE InsertByAge(SortByAge(SubSeq(rows, 1, Len(rows) - 1)), rows[Len(rows)])

WithAge(e, t) ==
    [job_key |-> e.job_key, company |-> e.company, source |-> e.source,
     title |-> e.title, location |-> e.location, url |-> e.url,
     first_seen_utc |-> e.first_seen_utc, last_seen_utc |-> e.last_seen_utc,
     age_days |-> age_days(e.first_seen_utc, t)]

\* the rows of aged_jobs.csv
AgedReport(st, t) ==
    LET Old(i) == IF age_days(st[i].first_seen_utc, t) >= AgedDays
                  THEN <<WithAge(st[i], t)>> ELSE <<>>
    IN  SortByAge(Flatten([i \in 1..Len(st) |-> Old(i)]))

MaxRuns == 3

\* the time that passes between two runs' readings of the clock
Advances == {SecondsPerDay, 27 * SecondsPerDay}

\* seconds between utc_iso() and the later utcnow() of age_days
AgeDelays == {0, 1}

NoProbe ==
    [given |-> TRUE, title |-> "", description |-> "", done |-> FALSE, keep |-> FALSE,
     reason |-> ""]

Init ==
    /\ pc = "idle"
    /\ clock = 0
    /\ runs = 0
    /\ sources = <<>>
    /\ idx = 1
    /\ raw_rows = <<>>
    /\ log = <<>>
    /\ uniq = <<>>
    /\ postings = <<>>
    /\ rejections = <<>>
    /\ state = <<>>
    /\ aged = <<>>
    /\ agedWritten = FALSE
    /\ now = 0
    /\ prev = <<>>
    /\ probe = NoProbe

\* run_all starts: it reads the loadsheet and opens the browser
StartRun ==
    /\ pc = "idle"
    /\ runs < MaxRuns
    /\ \E sheet \in Loadsheets : sources' = sheet
    /\ pc' = "scrape"
    /\ runs' = runs + 1
    /\ idx' = 1
    /\ raw_rows' = <<>>
    /\ log' = <<>>
    /\ uniq' = <<>>
    /\ prev' = state
    /\ UNCHANGED <<clock, postings, rejections, state, aged, agedWritten, now, probe>>

\* one pass of the source loop
ScrapeSource ==
    /\ pc = "scrape"
    /\ idx <= Len(sources)
    /\ \E name \in PagesFor(sources[idx]) :
          LET result == Dispatch(sources[idx], PageOf(name))
              after == AfterSource(raw_rows, idx, result)
          IN  /\ raw_rows' = after.raw_rows
              /\ idx' = after.idx
              /\ pc' = after.pc
              /\ log' = Append(log, [page |-> name, raised |-> result.raised,
                                     rows |-> result.rows])
    /\ UNCHANGED <<clock, runs, sources, uniq, postings, rejections, state, aged,
                   agedWritten, now, prev, probe>>

\* the rest of run_all, after the loop: de-dupe, filter, save, aging
Finish ==
    /\ pc = "scrape"
    /\ idx > Len(sources)
    /\ uniq' = Dedupe(raw_rows)
    /\ LET out == FilterRows(uniq')
       IN  /\ postings' = out.filtered
           /\ rejections' = out.rejections
           /\ \E adv \in Advances, delay \in AgeDelays :
                 /\ clock' = clock + adv
                 /\ IF postings' = <<>>
                    THEN /\ agedWritten' = FALSE
                         /\ UNCHANGED <<state, aged, now>>
                    ELSE /\ now' = clock'
                         /\ state' = Merge(read_csv(state), postings', now')
                         /\ aged' = AgedReport(state', now' + delay)
                         /\ agedWritten' = TRUE
    /\ pc' = "idle"
    /\ UNCHANGED <<runs, sources, idx, raw_rows, log, prev, probe>>

Next == StartRun \/ ScrapeSource \/ Finish

Spec == Init /\ [][Next]_vars

----------------------------------------------------------------------------
(* The classifier on its own: a (title, description) pair is drawn and     *)
(* filter_with_reason is applied to it.                                    *)

MaxProbeWords == 2

ProbeWords == {"Driver", "CDL", "apply", "now", "Inc.", "required", "hiring!", "Yard-Lead", "a@b.co"}

ProbeFixed ==
    { "", "   ", "CDL", "Boom Truck Driver (CDL)", "Apply Now",
      "We are hiring great people for our team today!",
      "Is this the right job for you?",
      "Call 715-555-1234 today", "see www.acme.example", "Acme Lumber LLC",
      "A   B", "ab   c", " Yard\tAssociate ",
      "Yard Lead Driver for the night shift",
      "Yard Lead for the busy night shift",
      "Yard Lead Driver Wanted for the shift",
      "we want a yard person to help us now" }

ProbeTitles ==
    ProbeFixed \cup
    UNION {{join(" ", w) : w \in [1..n -> ProbeWords]} : n \in 1..MaxProbeWords}

ProbeDescriptions == {"", "Apply now for this job", " Full time, CDL required "}

\* the title argument of a call: a string, or None (given = FALSE)
ProbeArguments ==
    {[given |-> TRUE, title |-> t] : t \in ProbeTitles} \cup {[given |-> FALSE, title |-> ""]}

\* (title or ""): the argument when there is one, "" for None
OrEmpty(given, text) == IF given THEN text ELSE ""

InitClassify ==
    /\ pc = "idle"
    /\ clock = 0
    /\ runs = 0
    /\ sources = <<>>
    /\ idx = 1
    /\ raw_rows = <<>>
    /\ log = <<>>
    /\ uniq = <<>>
    /\ postings = <<>>
    /\ rejections = <<>>
    /\ state = <<>>
    /\ aged = <<>>
    /\ agedWritten = FALSE
    /\ now = 0
    /\ prev = <<>>
    /\ \E a \in ProbeArguments, d \in ProbeDescriptions :
          probe = [given |-> a.given, title |-> a.title, description |-> d,
                   done |-> FALSE, keep |-> FALSE, reason |-> ""]

Classify ==
    /\ ~probe.done
    /\ LET res == filter_with_reason(OrEmpty(probe.given, probe.title), probe.description)
       IN  probe' = [probe EXCEPT !.done = TRUE, !.keep = res.keep, !.reason = res.reason]
    /\ UNCHANGED pipelineVars

NextClassify == Classify

SpecClassify == InitClassify /\ [][NextClassify]_vars

----------------------------------------------------------------------------
(* The Wix adapter on its own: a rendered page is drawn and                *)
(* scrape_wix_generic is applied to it.  The page starts with containers   *)
(* that hold no signal word and ends with up to two containers of the      *)
(* kinds below, so that containers stand before and after the tenth place. *)

MaxLeadingScopes == 10

AboutScope == Scope("About Acme", << El("Store Manager") >>)
JobsScope == Scope("Jobs at Acme", << El("Yard Associate"), BrokenEl >>)
CareersScope ==
    Scope("Careers: open positions, apply today",
          << El("Inside Sales-Rep\nFull time"), El("CAREERS") >>)

ScopeKinds == {AboutScope, JobsScope, CareersScope, BrokenScope}

WixTails == {<<>>} \cup {<<a>> : a \in ScopeKinds} \cup {<<a, b>> : a, b \in ScopeKinds}

WixProbePages ==
    {Unreachable} \cup
    { Page(TRUE, <<>>, [i \in 1..n |-> AboutScope] \o tail, net) :
        n \in 0..MaxLeadingScopes, tail \in WixTails,
        net \in {<<>>, << "Boom Truck Driver (CDL)", "Acme" >>} }

InitWix ==
    /\ pc = "idle"
    /\ clock = 0
    /\ runs = 0
    /\ sources = <<>>
    /\ idx = 1
    /\ raw_rows = <<>>
    /\ log = <<>>
    /\ uniq = <<>>
    /\ postings = <<>>
    /\ rejections = <<>>
    /\ state = <<>>
    /\ aged = <<>>
    /\ agedWritten = FALSE
    /\ now = 0
    /\ prev = <<>>
    /\ \E page \in WixProbePages :
          probe = [page |-> page, done |-> FALSE, raised |-> FALSE, rows |-> <<>>]

ScrapeWix ==
    /\ ~probe.done
    /\ LET res == scrape_wix_generic(probe.page, strip(RowWix.url), strip(RowWix.company))
       IN  probe' = [probe EXCEPT !.done = TRUE, !.raised = res.raised, !.rows = res.rows]
    /\ UNCHANGED pipelineVars

NextWix == ScrapeWix

SpecWix == InitWix /\ [][NextWix]_vars

----------------------------------------------------------------------------
(* Properties of the aging state.  A run is over when pc = "idle" and      *)
(* runs > 0; prev is then state.csv as the run found it, state what it     *)
(* left, postings the rows it kept and clock the time it read.             *)

RunOver == pc = "idle" /\ runs > 0

KeysOf(table) == {table[i].job_key : i \in 1..Len(table)}

PostingKeys == {make_job_key(postings[i]) : i \in 1..Len(postings)}

\* C1: for every job key of the state, no run changes first_seen_utc once it
\* is set, and no run lowers last_seen_utc (run times increase).
C1_SeenTimesMonotone ==
    \A i \in 1..Len(prev) : \A j \in 1..Len(state) :
        state[j].job_key = prev[i].job_key =>
            /\ state[j].first_seen_utc = prev[i].first_seen_utc
            /\ state[j].last_seen_utc >= prev[i].last_seen_utc
            /\ state[j].first_seen_utc <= state[j].last_seen_utc

\* a third run has moved last_seen_utc of a job that the second run had
\* already moved past its first_seen_utc
C1_Witness ==
    /\ RunOver /\ runs = 3
    /\ \E i \in 1..Len(prev) : \E j \in 1..Len(state) :
          /\ state[j].job_key = prev[i].job_key
          /\ prev[i].first_seen_utc < prev[i].last_seen_utc
          /\ prev[i].last_seen_utc < state[j].last_seen_utc

\* C2: no run removes an entry: every job key the run found in the state is
\* still there after it, so the state never gets shorter.
C2_NeverShrinks ==
    /\ KeysOf(prev) \subseteq KeysOf(state)
    /\ Len(state) >= Len(prev)

\* a run over a non-empty state that kept nothing, after a source failed
C2_Witness ==
    /\ RunOver
    /\ prev # <<>>
    /\ postings = <<>>
    /\ \E i \in 1..Len(log) : log[i].raised

\* C3: the merge of a run at time now with kept rows R: an entry whose key is
\* in R gets last_seen_utc = now and is otherwise as before, an entry whose key
\* is not in R is as before, and each key of R that was not in the state is
\* appended once with first_seen_utc = last_seen_utc = now.
C3_MergeFrame ==
    RunOver =>
        LET R == PostingKeys
            fresh == {i \in 1..Len(postings) : make_job_key(postings[i]) \notin KeysOf(prev)}
        IN  /\ Len(state) = Len(prev) + Cardinality(fresh)
            /\ \A i \in 1..Len(prev) :
                  state[i] = IF prev[i].job_key \in R
                             THEN [prev[i] EXCEPT !.last_seen_utc = clock]
                             ELSE prev[i]
            /\ \A i \in fresh :
                  Cardinality({j \in 1..Len(state) :
                      state[j] = Entry(postings[i], clock, clock)}) = 1
            /\ \A j \in (Len(prev) + 1)..Len(state) :
                  \E i \in fresh : state[j] = Entry(postings[i], clock, clock)

\* one run that saw a known job again, met a new one and missed a known one
C3_Witness ==
    /\ RunOver
    /\ \E i \in 1..Len(prev) : prev[i].job_key \in PostingKeys
    /\ \E i \in 1..Len(prev) : prev[i].job_key \notin PostingKeys
    /\ PostingKeys \ KeysOf(prev) # {}

----------------------------------------------------------------------------
(* Properties of one run: the aged report, the order of de-dupe and        *)
(* filter, the job key, and failures of sources and of page elements.      *)

\* the whole days from first_seen_utc of entry e to the time the run read
DaysOld(e) == (clock - e.first_seen_utc) \div SecondsPerDay

\* C4: after every run the aged report holds exactly the entries of the state
\* that are at least 28 whole days old at the run's time, each with that age:
\* an entry first seen 28 days before is in it, one first seen 27 days before
\* is not.
C4_AgedReportEveryRun ==
    RunOver =>
        /\ \A i \in 1..Len(state) :
              (DaysOld(state[i]) >= AgedDays) <=> (state[i].job_key \in KeysOf(aged))
        /\ \A j \in 1..Len(aged) :
              \E i \in 1..Len(state) :
                  /\ state[i].job_key = aged[j].job_key
                  /\ aged[j].age_days = DaysOld(state[i])

\* a run that kept no row ends with an entry that is 28 days old and is not in
\* the aged report
C4_Witness ==
    /\ RunOver
    /\ postings = <<>>
    /\ \E i \in 1..Len(state) :
          /\ DaysOld(state[i]) = AgedDays
          /\ state[i].job_key \notin KeysOf(aged)

\* C5: the postings of a run are the raw rows classified first and then
\* de-duplicated by job key, and there is one rejection per rejected raw row.
C5_ClassifyThenDedupe ==
    RunOver =>
        LET out == FilterRows(raw_rows)
        IN  /\ postings = Dedupe(out.filtered)
            /\ Len(rejections) = Len(out.rejections)

\* a raw row that passes the filter has no posting, because an earlier raw row
\* of the same job key was rejected
C5_Witness ==
    /\ RunOver
    /\ \E i \in 1..Len(raw_rows) :
          /\ filter_with_reason(raw_rows[i].title, raw_rows[i].description).keep
          /\ make_job_key(raw_rows[i]) \notin PostingKeys
          /\ \E j \in 1..(i - 1) :
                /\ make_job_key(raw_rows[j]) = make_job_key(raw_rows[i])
                /\ ~filter_with_reason(raw_rows[j].title, raw_rows[j].description).keep

\* the rules of the classifier in the order they are documented
RuleOrder ==
    << "too_short", "one_word_header", "contact_info", "company_name",
       "all_caps_header", "sentence_like", "block", "requirement_only",
       "not_title_like" >>

RuleMatches(k, title, desc) ==
    CASE RuleOrder[k] = "too_short" -> TooShort(title)
      [] RuleOrder[k] = "one_word_header" -> OneWordHeader(title)
      [] RuleOrder[k] = "contact_info" -> ContactInfo(title)
      [] RuleOrder[k] = "company_name" -> CompanyName(title)
      [] RuleOrder[k] = "all_caps_header" -> AllCapsHeader(title)
      [] RuleOrder[k] = "sentence_like" -> SentenceLike(title)
      [] RuleOrder[k] = "block" ->
            \E p \in 1..Len(BLOCKLIST) :
                contains(lower(title), BLOCKLIST[p]) \/ contains(lower(desc), BLOCKLIST[p])
      [] RuleOrder[k] = "requirement_only" -> RequirementOnly(title)
      [] RuleOrder[k] = "not_title_like" -> NotTitleLike(title)

FoldField(s) ==
    << SubSeq(s, 1, Len(s) - Len(lstrip(s))),
       normalize_space(lower(s)),
       SubSeq(s, Len(rstrip(s)) + 1, Len(s)) >>

FoldRow(j) ==
    << FoldField(j.company), FoldField(j.source), FoldField(j.title),
       FoldField(j.location), FoldField(j.url) >>

\* C7: two rows whose five key fields differ only in letter case or in the
\* width of inner whitespace have the same job key, so de-dupe keeps one of
\* them and the state holds one entry for them.
C7_KeyIgnoresCaseAndSpace ==
    /\ \A i, j \in 1..Len(raw_rows) :
          FoldRow(raw_rows[i]) = FoldRow(raw_rows[j])
              => make_job_key(raw_rows[i]) = make_job_key(raw_rows[j])
    /\ \A i, j \in 1..Len(uniq) : FoldRow(uniq[i]) = FoldRow(uniq[j]) => i = j
    /\ \A i, j \in 1..Len(state) : FoldRow(state[i]) = FoldRow(state[j]) => i = j

\* de-dupe has kept two rows whose titles differ in the width of a gap only
C7_Witness ==
    /\ RunOver
    /\ \E i, j \in 1..Len(uniq) :
          /\ i # j
          /\ FoldRow(uniq[i]) = FoldRow(uniq[j])
          /\ lower(uniq[i].title) # lower(uniq[j].title)

RawKeys == [i \in 1..Len(raw_rows) |-> make_job_key(raw_rows[i])]

\* the rows of raw_rows that are the first of their job key
FirstOfKey ==
    LET keys == RawKeys
    IN  {i \in 1..Len(raw_rows) : \A j \in 1..(i - 1) : keys[j] # keys[i]}

\* C8: de-dupe keeps, for each job key, exactly its first row, in the order of
\* the input; de-duplicating its result again returns the same rows in the
\* same order.
C8_DedupeKeepsFirst ==
    RunOver =>
        LET first == FirstOfKey
            ukeys == [i \in 1..Len(uniq) |-> make_job_key(uniq[i])]
        IN  /\ Len(uniq) = Cardinality(first)
            /\ \A i \in first : uniq[Cardinality({j \in first : j <= i})] = raw_rows[i]
            /\ \A i, j \in 1..Len(uniq) : ukeys[i] = ukeys[j] => i = j
            /\ Dedupe(uniq) = uniq

\* a run whose raw rows hold a job key twice, with different descriptions, and
\* other job keys before and after it
C8_Witness ==
    /\ RunOver
    /\ Len(uniq) >= 3
    /\ \E i, j \in 1..Len(raw_rows) :
          /\ i < j
          /\ RawKeys[i] = RawKeys[j]
          /\ raw_rows[i] # raw_rows[j]
          /\ \E k \in 1..Len(uniq) : k > 1 /\ k < Len(uniq) /\ uniq[k] = raw_rows[i]

WorldSources == UNION {{sheet[k] : k \in 1..Len(sheet)} : sheet \in Loadsheets}

\* the job keys a loadsheet row can give rise to
SourceKeys ==
    [row \in WorldSources |->
        UNION { LET rows == Dispatch(row, PageOf(name)).rows
                IN  {make_job_key(rows[i]) : i \in 1..Len(rows)} : name \in PagesFor(row) }]

\* C9: an adapter that raises does not end the run: the failed source adds no
\* row, the rows of the sources before it stay, every later source is still
\* scraped, and the state's entries that came from the failed source are
\* neither changed nor removed.
C9_SourceFailureContained ==
    /\ Len(log) = idx - 1
    /\ raw_rows = Flatten([i \in 1..Len(log) |->
                              IF log[i].raised THEN <<>> ELSE log[i].rows])
    /\ RunOver =>
          /\ Len(log) = Len(sources)
          /\ \A k \in 1..Len(log) :
                log[k].raised =>
                    \A i \in 1..Len(prev) :
                        prev[i].job_key \in SourceKeys[sources[k]]
                            => i <= Len(state) /\ state[i] = prev[i]

\* a run in which a source failed between two sources that gave rows, while
\* the state held an entry that came from the failed source
C9_Witness ==
    /\ RunOver
    /\ postings # <<>>
    /\ \E k \in 2..(Len(log) - 1) :
          /\ log[k].raised
          /\ ~log[k - 1].raised /\ log[k - 1].rows # <<>>
          /\ ~log[k + 1].raised /\ log[k + 1].rows # <<>>
          /\ \E i \in 1..Len(prev) : prev[i].job_key \in SourceKeys[sources[k]]

Reads(x) == ~x.raises

HealthyScope(scope) == [scope EXCEPT !.els = SelectSeq(scope.els, Reads)]

\* the page without the elements that raise when they are read
Healthy(page) ==
    LET scopes == SelectSeq(page.scopes, Reads)
    IN  [page EXCEPT !.items = SelectSeq(page.items, Reads),
                     !.scopes = [i \in 1..Len(scopes) |-> HealthyScope(scopes[i])]]

\* C10: an element that raises when it is read is skipped and nothing else is
\* lost: on a page that loads, every adapter returns the rows of the elements
\* that do not raise.
C10_ElementFailureSkipsElement ==
    \A i \in 1..Len(log) :
        PageOf(log[i].page).nav =>
            /\ ~log[i].raised
            /\ log[i].rows = Dispatch(sources[i], Healthy(PageOf(log[i].page))).rows

\* a page loaded, one of its containers raised when read, and the source gave
\* no row although its other elements hold job titles
C10_Witness ==
    \E i \in 1..Len(log) :
        /\ PageOf(log[i].page).nav
        /\ \E s \in 1..Len(PageOf(log[i].page).scopes) : PageOf(log[i].page).scopes[s].raises
        /\ log[i].raised
        /\ Dispatch(sources[i], Healthy(PageOf(log[i].page))).rows # <<>>

----------------------------------------------------------------------------
(* Properties of the empty loadsheet, of the classifier's results and of   *)
(* the keys of the state.                                                  *)

\* C11: a run over a loadsheet without rows ends without error and writes both
\* an empty job_postings.csv and an empty aged_jobs.csv.
C11_EmptyLoadsheetWritesBoth ==
    (RunOver /\ sources = <<>>) =>
        /\ raw_rows = <<>> /\ log = <<>>
        /\ postings = <<>>
        /\ agedWritten
        /\ (state = <<>> => aged = <<>>)

\* the first run read a loadsheet without rows and ended without writing
\* aged_jobs.csv
C11_Witness ==
    /\ RunOver /\ runs = 1
    /\ sources = <<>>
    /\ postings = <<>>
    /\ ~agedWritten

\* the rejection codes that are not block:<phrase>
ReasonCodes ==
    { "too_short", "one_word_header", "contact_info", "company_name", "all_caps_header",
      "sentence_like", "requirement_only", "not_title_like" }

\* C12: the classifier answers every (title, snippet), an empty or missing
\* title included: reason is "" exactly when keep is TRUE, a rejection carries
\* one of the fixed codes or block:<phrase> for a phrase of the blocklist, and
\* an empty title is rejected.
C12_ClassifierTotal ==
    probe.done =>
        /\ probe.keep \in BOOLEAN
        /\ probe.keep <=> (probe.reason = "")
        /\ ~probe.keep =>
              \/ probe.reason \in ReasonCodes
              \/ \E p \in 1..Len(BLOCKLIST) : probe.reason = "block:" \o BLOCKLIST[p]
        /\ (~probe.given \/ strip(probe.title) = "") => ~probe.keep

\* the classifier was called without a title and rejected it
C12_Witness ==
    /\ probe.done
    /\ ~probe.given
    /\ ~probe.keep
    /\ probe.reason = "too_short"

\* C13: the comparisons on a title use the title stripped and with its runs of
\* inner whitespace collapsed: a title is rejected as too_short exactly when
\* its normalized form has fewer than 5 characters, however wide its gaps are,
\* and the job key of a row is the job key of the row with its title
\* normalized.
C13_TitleNormalizedBeforeComparison ==
    /\ probe.done =>
          ((Len(normalize_space(OrEmpty(probe.given, probe.title))) < 5)
              <=> (probe.reason = "too_short"))
    /\ \A i \in 1..Len(raw_rows) :
          make_job_key(raw_rows[i])
              = make_job_key([raw_rows[i] EXCEPT !.title = normalize_space(@)])

\* a title of five characters or more whose normalized form has fewer than
\* five was classified, and not as too_short
C13_Witness ==
    /\ probe.done
    /\ Len(strip(probe.title)) >= 5
    /\ Len(normalize_space(probe.title)) < 5
    /\ probe.reason # "too_short"

\* the probe's title as the rules see it, and its description
ProbeTitle == strip(OrEmpty(probe.given, probe.title))
ProbeDesc == strip(probe.description)

\* the number of words of a title that are title-like: an acronym of 2 to 5
\* capitals or a Title-Cased word, optionally hyphenated
TitleLikeWords(title) ==
    LET words == split(title)
    IN  Cardinality({i \in 1..Len(words) : TitleWordOk(words[i])})

\* the probe has been classified, its title has more than 6 words and none of
\* the rules before not_title_like matches it
ReachesShapeTest ==
    /\ probe.done
    /\ Len(split(ProbeTitle)) > 6
    /\ \A k \in 1..Len(RuleOrder) :
          RuleOrder[k] # "not_title_like" => ~RuleMatches(k, ProbeTitle, ProbeDesc)

\* C14: a title of more than 6 words that matches no earlier rule is rejected
\* as not_title_like exactly when fewer than half of its words are title-like
\* (a 7-word title with 3 such words is rejected, one with 4 is kept).
C14_FewerThanHalf ==
    ReachesShapeTest =>
        ((probe.reason = "not_title_like" /\ ~probe.keep)
            <=> (2 * TitleLikeWords(ProbeTitle) < Len(split(ProbeTitle))))

\* C14 as amended: such a title is rejected as not_title_like exactly when the
\* number of its title-like words is below the word count halved and rounded
\* down, and is kept otherwise (a 7-word title with 3 such words is kept, one
\* with 2 is rejected).
C14_FewerThanHalfRoundedDown ==
    ReachesShapeTest =>
        /\ (probe.reason = "not_title_like" /\ ~probe.keep)
              <=> (TitleLikeWords(ProbeTitle) < Len(split(ProbeTitle)) \div 2)
        /\ probe.keep <=> (TitleLikeWords(ProbeTitle) >= Len(split(ProbeTitle)) \div 2)

\* a title of 7 words, 3 of them title-like, reached the shape test and was
\* kept
C14_Witness ==
    /\ ReachesShapeTest
    /\ Len(split(ProbeTitle)) = 7
    /\ TitleLikeWords(ProbeTitle) = 3
    /\ probe.keep

----------------------------------------------------------------------------
(* Properties of the containers the Wix adapter scans.                     *)

\* the rows the elements of a container give when the container is scanned
ScannedRows(scope) ==
    LET Body(el) == WixElement(strip(RowWix.url), strip(RowWix.company), el)
        rows == Collect(scope.els, Body)
    IN  {rows[i] : i \in 1..Len(rows)}

\* the rows the adapter returned that come from the DOM
DomRows == {probe.rows[i] : i \in {j \in 1..Len(probe.rows) : probe.rows[j].source = "Website (Wix)"}}

\* the number of signal words found in the text of a container
SignalHits(scope) ==
    Cardinality({sig \in SIGNAL_WORDS : contains(lower(scope.text), sig)})

\* C15: the adapter scans the containers whose text holds a signal word, the
\* one with the most signal words among them, and no other container; when no
\* container of the page holds a signal word it scans the whole page, so that
\* every element that passes the shape test gives a row.
C15_RankedScopesWithFallback ==
    (probe.done /\ ~probe.raised) =>
        LET scopes == probe.page.scopes
            sig == {i \in 1..Len(scopes) : HasSignal(scopes[i])}
        IN  IF sig = {}
            THEN \A i \in 1..Len(scopes) : ScannedRows(scopes[i]) \subseteq DomRows
            ELSE /\ DomRows \subseteq UNION {ScannedRows(scopes[i]) : i \in sig}
                 /\ \E i \in sig :
                       /\ \A j \in sig : SignalHits(scopes[j]) <= SignalHits(scopes[i])
                       /\ ScannedRows(scopes[i]) \subseteq DomRows

\* C15 as amended: the adapter fails when the page does not load or one of its
\* first ten containers raises when read; otherwise it scans, among the first
\* ten containers of the page in document order, every container whose text
\* holds a signal word, whatever the number of signal words, and no other
\* container: when none of the ten holds a signal word no row comes from the
\* DOM.
C15_FirstTenSignalScopes ==
    probe.done =>
        LET scopes == probe.page.scopes
            first == {i \in 1..Len(scopes) : i <= ScopeLimit}
            sig == {i \in first : HasSignal(scopes[i])}
        IN  /\ probe.raised <=> (~probe.page.nav \/ \E i \in first : scopes[i].raises)
            /\ probe.raised => probe.rows = <<>>
            /\ ~probe.raised => DomRows = UNION {ScannedRows(scopes[i]) : i \in sig}
            /\ sig = {} => DomRows = {}

\* the adapter returned the row of a container with one signal word in tenth
\* place and no row of the eleventh container, which holds more signal words
C15_Witness ==
    /\ probe.done /\ ~probe.raised
    /\ Len(probe.page.scopes) = ScopeLimit + 1
    /\ SignalHits(probe.page.scopes[ScopeLimit]) = 1
    /\ SignalHits(probe.page.scopes[ScopeLimit + 1]) > 1
    /\ ScannedRows(probe.page.scopes[ScopeLimit]) # {}
    /\ DomRows = ScannedRows(probe.page.scopes[ScopeLimit])
    /\ ScannedRows(probe.page.scopes[ScopeLimit + 1]) # {}

-----------------------------------------------------------------------------
\* C16: starting from no state table, after any sequence of runs state.csv
\* holds at most one entry per job_key, and the job_key stored in an entry is
\* the key make_job_key computes from the entry's own company, source, title,
\* location and url.
C16_OneEntryPerKey ==
    /\ \A i, j \in 1..Len(state) : state[i].job_key = state[j].job_key => i = j
    /\ \A i \in 1..Len(state) : state[i].job_key = make_job_key(state[i])

\* a later run has rewritten state.csv, and an entry whose location was read
\* as a missing value now carries a key its own fields no longer give
C16_Witness ==
    /\ RunOver /\ runs >= 2 /\ agedWritten
    /\ \E i \in 1..Len(state) :
          /\ i <= Len(prev)
          /\ prev[i].location \in NA_VALUES \ {""}
          /\ prev[i].job_key = make_job_key(prev[i])
          /\ state[i].job_key = prev[i].job_key
          /\ state[i].location = ""
          /\ state[i].job_key # make_job_key(state[i])

=============================================================================
